---- MODULE Spec2Model ----
(***************************************************************************)
(* Model of adbb.py: a Tk control panel that drives the external tool      *)
(* "adbb".  One UI thread runs the button handlers start_recording,        *)
(* stop_recording and take_screenshot; each accepted start_recording       *)
(* spawns a daemon thread running _record_worker.  The threads share the   *)
(* global flag `recording`.                                                *)
(*                                                                         *)
(* Text is modelled as a sequence of one-character strings, so that        *)
(* str.strip, str.splitlines and the substring test are computed.          *)
(***************************************************************************)
EXTENDS Integers, Sequences, FiniteSets, TLC

----------------------------------------------------------------------------
(* Bounds *)

MaxWorkers == 2
MaxClock == 1
MaxShots == 2
MaxLen == 5

----------------------------------------------------------------------------
(* Text helpers: Python str operations used by adb_cmd and                 *)
(* check_device_connected                                                  *)

Whitespace == {" ", "\n"}

\* stands for the device-state token "device" looked for by line 57
DeviceToken == <<"d", "v">>

RECURSIVE lstrip(_)
lstrip(s) ==
    IF s = <<>> THEN <<>>
    ELSE IF Head(s) \in Whitespace THEN lstrip(Tail(s)) ELSE s

RECURSIVE rstrip(_)
rstrip(s) ==
    IF s = <<>> THEN <<>>
    ELSE IF s[Len(s)] \in Whitespace THEN rstrip(SubSeq(s, 1, Len(s) - 1)) ELSE s

\* str.strip()
strip(s) == rstrip(lstrip(s))

\* str.splitlines(): break at every "\n"; a final line break adds no empty line
RECURSIVE splitlines(_)
splitlines(s) ==
    IF s = <<>> THEN <<>>
    ELSE IF \E i \in 1..Len(s) : s[i] = "\n"
         THEN LET i == CHOOSE k \in 1..Len(s) :
                          s[k] = "\n" /\ \A j \in 1..(k - 1) : s[j] # "\n"
              IN  <<SubSeq(s, 1, i - 1)>> \o splitlines(SubSeq(s, i + 1, Len(s)))
         ELSE <<s>>

\* the Python test  `sub in s`  on strings
contains(s, sub) ==
    \E i \in 1..(Len(s) - Len(sub) + 1) : SubSeq(s, i, i + Len(sub) - 1) = sub

\* lines[0:], the header line kept
SliceFrom0(lines) == lines

\* lines[1:]
SliceFrom1(lines) == IF lines = <<>> THEN <<>> ELSE Tail(lines)

----------------------------------------------------------------------------
(* The outcome of one subprocess.run of the external tool: either the call *)
(* raises (binary missing), or it returns the two captured streams.        *)

\* str(e) of the exception raised when the binary cannot be run
NotFound == <<"n", "f">>

Raised(msg) == [raised |-> TRUE, stdout |-> <<>>, stderr |-> <<>>, exc |-> msg]
Returned(o, e) == [raised |-> FALSE, stdout |-> o, stderr |-> e, exc |-> <<>>]

\* adb_cmd whose except branch drops the exception text
adb_cmd_swallows(run) ==
    IF run.raised
    THEN [out |-> <<>>, err |-> <<>>]
    ELSE [out |-> strip(run.stdout), err |-> strip(run.stderr)]

\* adb_cmd: (stdout.strip(), stderr.strip()), or ("", str(e)) when run raises
adb_cmd(run) ==
    IF run.raised
    THEN [out |-> <<>>, err |-> run.exc]
    ELSE [out |-> strip(run.stdout), err |-> strip(run.stderr)]

NoRun == Returned(<<>>, <<>>)

\* a messagebox: the call, its title, its fixed message, the text appended to it
Dialog(kind, title, msg, detail) ==
    [kind |-> kind, title |-> title, msg |-> msg, detail |-> detail]
NoDialog == Dialog("none", "", "", <<>>)

\* the list comprehension of line 57
devices(out) ==
    SelectSeq(SliceFrom1(splitlines(out)),
              LAMBDA ln : strip(ln) # <<>> /\ contains(ln, DeviceToken))

\* check_device_connected whose warning branch forgets to return False
check_device_connected_warns_only(run) ==
    LET r == adb_cmd(run) IN
    IF r.err # <<>>
    THEN [present |-> FALSE,
          dialog |-> Dialog("showerror", "ADBB Error", "adbb devices failed:",
                            r.err)]
    ELSE IF devices(r.out) = <<>>
    THEN [present |-> TRUE,
          dialog |-> Dialog("showwarning", "No Device",
                            "No adbb device detected.", <<>>)]
    ELSE [present |-> TRUE, dialog |-> NoDialog]

\* check_device_connected: the value returned and the dialog shown
check_device_connected(run) ==
    LET r == adb_cmd(run) IN
    IF r.err # <<>>
    THEN [present |-> FALSE,
          dialog |-> Dialog("showerror", "ADBB Error", "adbb devices failed:",
                            r.err)]
    ELSE IF devices(r.out) = <<>>
    THEN [present |-> FALSE,
          dialog |-> Dialog("showwarning", "No Device",
                            "No adbb device detected.", <<>>)]
    ELSE [present |-> TRUE, dialog |-> NoDialog]

----------------------------------------------------------------------------
(* State *)

VARIABLES
    recording,      \* global `recording`
    record_thread,  \* global `record_thread`: 0 is None, else the thread's id
    ui,             \* the UI thread: position in its handler, commands it issued
    dialog,         \* the modal messagebox on screen, NoDialog when none
    workers,        \* the _record_worker threads, by id
    status_label,   \* text of the latest set_status call: root.after(0, ...)
                    \* callbacks run in the order queued, so the label shows
                    \* the texts in call order and ends on this one
    clock,          \* wall clock, in seconds, as of the last time it was read
    files,          \* local files: name -> number of times written
    shots,          \* number of take_screenshot calls so far
    probe           \* input and answer of a device-presence check on its own

vars == <<recording, record_thread, ui, dialog, workers, status_label, clock,
          files, shots, probe>>

WorkerIds == 1..MaxWorkers

\* the clock at the next read: the second last read, or a later one
Now == {t \in {clock, clock + 1} : t <= MaxClock}

\* time.strftime("%Y%m%d_%H%M%S"): the text of the current second
strftime(t) == [digits |-> t]
NoTimestamp == [digits |-> 0 - 1]

\* f"record_{timestamp}.mp4"
record_name(ts) == [prefix |-> "record_", timestamp |-> ts, ext |-> ".mp4"]
NoName == [prefix |-> "", timestamp |-> NoTimestamp, ext |-> ""]
\* f"screenshot_{timestamp}.png"
screenshot_name(ts) == [prefix |-> "screenshot_", timestamp |-> ts, ext |-> ".png"]
record_tmp == "/sdcard/tre_record_tmp.mp4"
screenshot_tmp == "/sdcard/tre_screenshot_tmp.png"

\* one use of the external tool or of the capture process handle
\* and the device path it is about
Cmd(op, path) == [op |-> op, path |-> path]
DevicesCmd == Cmd("devices", "")
ScreenrecordCmd == Cmd("shell screenrecord", record_tmp)
TerminateCmd == Cmd("terminate", record_tmp)
ScreencapCmd == Cmd("shell screencap -p", screenshot_tmp)
PullCmd(path) == Cmd("pull", path)
RmCmd(path) == Cmd("shell rm", path)

\* a status text: its fixed part, then the error text or file name put into it
Text(m) == [msg |-> m, err |-> <<>>, file |-> NoName]
TextErr(m, e) == [msg |-> m, err |-> e, file |-> NoName]
TextFile(m, f) == [msg |-> m, err |-> <<>>, file |-> f]

\* set_status: the label update queued on the Tk event loop
set_status(text) == text

\* what the external tool can do on `devices`
Header == <<"d", "v", "s">>
DevicesRuns ==
    { Returned(Header \o <<"\n">>, <<>>),
      Returned(Header \o <<"\n", "x", " ", "d", "v", "\n">>, <<>>),
      Returned(Header \o <<"\n", "x", " ", "d", "v", "\n">>, <<"e", "\n">>),
      Raised(NotFound) }

\* what the external tool can do on `shell screencap`
ScreencapRuns ==
    { Returned(<<>>, <<>>),
      Returned(<<>>, <<"e", "\n">>),
      Raised(NotFound) }

\* what the external tool can do on `pull`: it writes the local file exactly
\* when it succeeds, and it reports a failure on its error stream
PullRuns ==
    { [run |-> Returned(<<"o", "\n">>, <<>>), wrote |-> TRUE],
      [run |-> Returned(<<>>, <<"e", "\n">>), wrote |-> FALSE],
      [run |-> Raised(NotFound), wrote |-> FALSE] }

Unborn == [pc |-> "unborn", out_filename |-> NoName, proc |-> "none",
           cmds |-> <<>>, stderr |-> <<>>, produced |-> {}, stopReq |-> FALSE]

\* the UI thread in mainloop, no handler running
UiIdle == [pc |-> "idle", cmds |-> <<>>, out_filename |-> NoName, last |-> NoRun]

\* started, and not yet past `while recording`
BeforeTeardown(w) == workers[w].pc \in {"begin", "popen", "poll"}
Alive(w) == workers[w].pc \notin {"unborn", "done"}
Spawned == {w \in WorkerIds : workers[w].pc # "unborn"}

Init ==
    /\ recording = FALSE
    /\ record_thread = 0
    /\ ui = UiIdle
    /\ dialog = NoDialog
    /\ workers = [w \in WorkerIds |-> Unborn]
    /\ status_label = Text("Ready.")
    /\ clock = 0
    /\ files = <<>>
    /\ shots = 0
    /\ probe = [phase |-> "off", run |-> NoRun, present |-> FALSE]

WriteFile(fs, name) ==
    IF name \in DOMAIN fs
    THEN [fs EXCEPT ![name] = @ + 1]
    ELSE [n \in DOMAIN fs \cup {name} |-> IF n = name THEN 1 ELSE fs[n]]

----------------------------------------------------------------------------
(* start_recording, on the UI thread *)

\* start_recording with the presence gate run before the re-entry test
start_recording_gate_first ==
    /\ ui.pc = "idle"
    /\ \E run \in DevicesRuns :
         LET c == check_device_connected(run) IN
         IF recording
         THEN /\ dialog' = Dialog("showinfo", "Info",
                                  "Recording is already in progress.", <<>>)
              /\ ui' = [ui EXCEPT !.pc = "dialog",
                                  !.cmds = Append(@, DevicesCmd), !.last = run]
         ELSE /\ Cardinality(Spawned) < MaxWorkers
              /\ dialog' = c.dialog
              /\ ui' = [ui EXCEPT
                          !.pc = IF c.present THEN "start_flag" ELSE "dialog",
                          !.cmds = Append(@, DevicesCmd), !.last = run]
    /\ UNCHANGED <<recording, record_thread, workers, status_label, clock, files,
                   shots, probe>>

\* lines 73-78: the button is pressed; re-entry is refused with a notice,
\* otherwise the presence gate runs.  The gate touches no state shared with
\* the worker threads, so the whole test is one step.
start_recording ==
    /\ ui.pc = "idle"
    /\ IF recording
       THEN /\ dialog' = Dialog("showinfo", "Info",
                               "Recording is already in progress.", <<>>)
            /\ ui' = [ui EXCEPT !.pc = "dialog"]
       ELSE /\ Cardinality(Spawned) < MaxWorkers
            /\ \E run \in DevicesRuns :
                 LET c == check_device_connected(run) IN
                 /\ dialog' = c.dialog
                 /\ ui' = [ui EXCEPT
                             !.pc = IF c.present THEN "start_flag" ELSE "dialog",
                             !.cmds = Append(@, DevicesCmd), !.last = run]
    /\ UNCHANGED <<recording, record_thread, workers, status_label, clock,
                   files, shots, probe>>

\* start_flag that creates the thread and never starts it
start_flag_thread_not_started ==
    /\ ui.pc = "start_flag"
    /\ recording' = TRUE
    /\ LET w == Cardinality(Spawned) + 1 IN
         /\ w \in WorkerIds
         /\ record_thread' = w
    /\ ui' = [ui EXCEPT !.pc = "start_status"]
    /\ UNCHANGED <<dialog, workers, status_label, clock, files, shots, probe>>

\* lines 80-82: the flag is set, a new daemon thread is created and started
start_flag ==
    /\ ui.pc = "start_flag"
    /\ recording' = TRUE
    /\ LET w == Cardinality(Spawned) + 1 IN
         /\ w \in WorkerIds
         /\ record_thread' = w
         /\ workers' = [workers EXCEPT ![w] = [Unborn EXCEPT !.pc = "begin"]]
    /\ ui' = [ui EXCEPT !.pc = "start_status"]
    /\ UNCHANGED <<dialog, status_label, clock, files, shots, probe>>

\* line 83
start_status ==
    /\ ui.pc = "start_status"
    /\ status_label' = set_status(Text("Recording: ON"))
    /\ ui' = UiIdle
    /\ UNCHANGED <<recording, record_thread, dialog, workers, clock, files,
                   shots, probe>>

----------------------------------------------------------------------------
(* stop_recording, on the UI thread *)

\* stop_recording without the test of line 132
stop_recording_unguarded ==
    /\ ui.pc = "idle"
    /\ recording' = FALSE
    /\ ui' = [ui EXCEPT !.pc = "stop_status"]
    /\ workers' = [w \in WorkerIds |->
                     IF BeforeTeardown(w)
                     THEN [workers[w] EXCEPT !.stopReq = TRUE]
                     ELSE workers[w]]
    /\ UNCHANGED <<record_thread, dialog, status_label, clock, files, shots,
                   probe>>

\* lines 132-135
stop_recording ==
    /\ ui.pc = "idle"
    /\ IF ~recording
       THEN /\ dialog' = Dialog("showinfo", "Info",
                               "No recording is currently running.", <<>>)
            /\ ui' = [ui EXCEPT !.pc = "dialog"]
            /\ UNCHANGED <<recording, workers>>
       ELSE /\ recording' = FALSE
            /\ ui' = [ui EXCEPT !.pc = "stop_status"]
            \* history only: the threads still before their teardown have
            \* now been asked to stop
            /\ workers' = [w \in WorkerIds |->
                             IF BeforeTeardown(w)
                             THEN [workers[w] EXCEPT !.stopReq = TRUE]
                             ELSE workers[w]]
            /\ UNCHANGED dialog
    /\ UNCHANGED <<record_thread, status_label, clock, files, shots, probe>>

\* line 136
stop_status ==
    /\ ui.pc = "stop_status"
    /\ status_label' = set_status(Text("Recording: Stopping..."))
    /\ ui' = UiIdle
    /\ UNCHANGED <<recording, record_thread, dialog, workers, clock, files,
                   shots, probe>>

\* the user closes the messagebox; every handler returns right after its dialog
dismiss ==
    /\ ui.pc = "dialog"
    /\ dialog' = NoDialog
    /\ ui' = UiIdle
    /\ UNCHANGED <<recording, record_thread, workers, status_label, clock,
                   files, shots, probe>>

----------------------------------------------------------------------------
(* take_screenshot, on the UI thread *)

\* lines 143-150: the button is pressed, the presence gate runs, the file
\* name is computed
take_screenshot ==
    /\ ui.pc = "idle"
    /\ shots < MaxShots
    /\ shots' = shots + 1
    /\ \E run \in DevicesRuns :
         LET c == check_device_connected(run) IN
         /\ dialog' = c.dialog
         /\ IF c.present
            THEN /\ \E now \in Now :
                      /\ clock' = now
                      /\ ui' = [ui EXCEPT
                                  !.pc = "ss_capture",
                                  !.cmds = Append(@, DevicesCmd), !.last = run,
                                  !.out_filename = screenshot_name(strftime(now))]
                 /\ status_label' =
                        set_status(Text("Capturing screenshot on device..."))
            ELSE /\ ui' = [ui EXCEPT !.pc = "dialog",
                                     !.cmds = Append(@, DevicesCmd), !.last = run]
                 /\ UNCHANGED <<status_label, clock>>
    /\ UNCHANGED <<recording, record_thread, workers, files, probe>>

\* lines 151-156
ss_capture ==
    /\ ui.pc = "ss_capture"
    /\ \E run \in ScreencapRuns :
         LET r == adb_cmd(run) IN
         IF r.err # <<>>
         THEN /\ dialog' = Dialog("showerror", "ADBB Error",
                                 "screencap failed:", r.err)
              /\ ui' = [ui EXCEPT !.pc = "dialog",
                                  !.cmds = Append(@, ScreencapCmd), !.last = run]
              /\ UNCHANGED status_label
         ELSE /\ ui' = [ui EXCEPT !.pc = "ss_pull",
                                  !.cmds = Append(@, ScreencapCmd), !.last = run]
              /\ status_label' =
                     set_status(Text("Pulling screenshot from device..."))
              /\ UNCHANGED dialog
    /\ UNCHANGED <<recording, record_thread, workers, clock, files, shots,
                   probe>>

\* ss_pull that goes on to the cleanup after reporting a failed pull
ss_pull_cleans_up_on_error ==
    /\ ui.pc = "ss_pull"
    /\ \E o \in PullRuns :
         LET r == adb_cmd(o.run)
             issued == Append(ui.cmds, PullCmd(screenshot_tmp))
         IN
         /\ files' = IF o.wrote THEN WriteFile(files, ui.out_filename) ELSE files
         /\ ui' = [ui EXCEPT !.pc = "ss_rm", !.cmds = issued, !.last = o.run]
         /\ dialog' = IF r.err # <<>>
                       THEN Dialog("showerror", "ADBB Error", "pull failed:", r.err)
                       ELSE dialog
    /\ UNCHANGED <<recording, record_thread, workers, status_label, clock, shots,
                   probe>>

\* lines 157-160
ss_pull ==
    /\ ui.pc = "ss_pull"
    /\ \E o \in PullRuns :
         LET r == adb_cmd(o.run)
             issued == Append(ui.cmds, PullCmd(screenshot_tmp))
         IN
         /\ files' = IF o.wrote THEN WriteFile(files, ui.out_filename) ELSE files
         /\ IF r.err # <<>>
            THEN /\ dialog' = Dialog("showerror", "ADBB Error",
                                    "pull failed:", r.err)
                 /\ ui' = [ui EXCEPT !.pc = "dialog",
                                     !.cmds = issued, !.last = o.run]
            ELSE /\ ui' = [ui EXCEPT !.pc = "ss_rm", !.cmds = issued,
                                     !.last = o.run]
                 /\ UNCHANGED dialog
    /\ UNCHANGED <<recording, record_thread, workers, status_label, clock, shots,
                   probe>>

\* ss_rm that deletes the recording's temporary file
ss_rm_wrong_path ==
    /\ ui.pc = "ss_rm"
    /\ ui' = [ui EXCEPT !.pc = "ss_status",
                        !.cmds = Append(@, RmCmd(record_tmp))]
    /\ UNCHANGED <<recording, record_thread, dialog, workers, status_label, clock,
                   files, shots, probe>>

\* line 162
ss_rm ==
    /\ ui.pc = "ss_rm"
    /\ ui' = [ui EXCEPT !.pc = "ss_status",
                        !.cmds = Append(@, RmCmd(screenshot_tmp))]
    /\ UNCHANGED <<recording, record_thread, dialog, workers, status_label, clock,
                   files, shots, probe>>

\* line 163; the handler returns
ss_status ==
    /\ ui.pc = "ss_status"
    /\ status_label' = set_status(TextFile("Saved screenshot: ", ui.out_filename))
    /\ ui' = UiIdle
    /\ UNCHANGED <<recording, record_thread, dialog, workers, clock, files, shots,
                   probe>>

----------------------------------------------------------------------------
(* _record_worker, one thread per accepted start_recording *)

\* the thread has returned: its locals are gone, what it did remains
Finished(r, cmds) == [Unborn EXCEPT !.pc = "done", !.proc = r.proc, !.cmds = cmds]

Goto(w, label) == [workers EXCEPT ![w].pc = label]

\* lines 89-94
worker_begin(w) ==
    /\ workers[w].pc = "begin"
    /\ \E now \in Now :
         /\ clock' = now
         /\ workers' = [workers EXCEPT
                          ![w].pc = "popen",
                          ![w].out_filename = record_name(strftime(now))]
    /\ status_label' = set_status(Text("Starting adbb screenrecord..."))
    /\ UNCHANGED <<recording, record_thread, ui, dialog, files, shots, probe>>

\* worker_popen whose except branch leaves the flag alone
worker_popen_keeps_flag(w) ==
    /\ workers[w].pc = "popen"
    /\ \/ workers' = [workers EXCEPT ![w].pc = "poll",
                                     ![w].proc = "running",
                                     ![w].cmds = Append(@, ScreenrecordCmd)]
       \/ workers' = Goto(w, "failed")
    /\ UNCHANGED <<recording, record_thread, ui, dialog, status_label, clock,
                   files, shots, probe>>

\* lines 95-100 when Popen returns, lines 101-102 when it raises
worker_popen(w) ==
    /\ workers[w].pc = "popen"
    /\ \/ /\ workers' = [workers EXCEPT ![w].pc = "poll",
                                        ![w].proc = "running",
                                        ![w].cmds = Append(@, ScreenrecordCmd)]
          /\ UNCHANGED recording
       \/ /\ recording' = FALSE
          /\ workers' = Goto(w, "failed")
    /\ UNCHANGED <<record_thread, ui, dialog, status_label, clock, files,
                   shots, probe>>

\* lines 103-104
worker_failed(w) ==
    /\ workers[w].pc = "failed"
    /\ status_label' =
           set_status(TextErr("Failed to start screenrecord: ", NotFound))
    /\ workers' = [workers EXCEPT ![w] = Finished(workers[w], workers[w].cmds)]
    /\ UNCHANGED <<recording, record_thread, ui, dialog, clock, files, shots,
                   probe>>

\* lines 107-111: one test of the flag; while it is set the thread sleeps and
\* tests again, once it is clear the thread announces the teardown
worker_poll(w) ==
    /\ workers[w].pc = "poll"
    /\ IF recording
       THEN UNCHANGED <<workers, status_label>>
       ELSE /\ workers' = Goto(w, "terminate")
            /\ status_label' =
                   set_status(Text("Stopping recording, please wait..."))
    /\ UNCHANGED <<recording, record_thread, ui, dialog, clock, files, shots,
                   probe>>

\* worker_terminate that goes on to the pull with the process left running
worker_terminate_skipped(w) ==
    /\ workers[w].pc = "terminate"
    /\ workers' = [workers EXCEPT ![w].pc = "pull", ![w].stopReq = FALSE]
    /\ status_label' = set_status(Text("Pulling video from device..."))
    /\ UNCHANGED <<recording, record_thread, ui, dialog, clock, files, shots,
                   probe>>

\* lines 112-119
worker_terminate(w) ==
    /\ workers[w].pc = "terminate"
    /\ workers' = [workers EXCEPT ![w].pc = "pull",
                                  ![w].proc = "terminated",
                                  ![w].cmds = Append(@, TerminateCmd),
                                  ![w].stopReq = FALSE]
    /\ status_label' = set_status(Text("Pulling video from device..."))
    /\ UNCHANGED <<recording, record_thread, ui, dialog, clock, files, shots,
                   probe>>

\* worker_pull that pulls again after a failed pull
worker_pull_retry(w) ==
    /\ workers[w].pc = "pull"
    /\ \E o \in PullRuns :
         LET stderr == adb_cmd(o.run).err IN
         /\ workers' = [workers EXCEPT
                          ![w].pc = IF stderr # <<>> THEN "pull" ELSE "rm",
                          ![w].stderr = stderr,
                          ![w].cmds = Append(@, PullCmd(record_tmp)),
                          ![w].produced = IF o.wrote
                                          THEN @ \cup {workers[w].out_filename}
                                          ELSE @]
         /\ files' = IF o.wrote THEN WriteFile(files, workers[w].out_filename)
                     ELSE files
         /\ status_label' =
                set_status(IF stderr # <<>>
                           THEN TextErr("Pull error: ", stderr)
                           ELSE TextFile("Saved recording: ",
                                         workers[w].out_filename))
    /\ UNCHANGED <<recording, record_thread, ui, dialog, clock, shots, probe>>

\* lines 120-124
worker_pull(w) ==
    /\ workers[w].pc = "pull"
    /\ \E o \in PullRuns :
         LET stderr == adb_cmd(o.run).err IN
         /\ workers' = [workers EXCEPT
                          ![w].pc = "rm",
                          ![w].stderr = stderr,
                          ![w].cmds = Append(@, PullCmd(record_tmp)),
                          ![w].produced = IF o.wrote
                                          THEN @ \cup {workers[w].out_filename}
                                          ELSE @]
         /\ files' = IF o.wrote THEN WriteFile(files, workers[w].out_filename)
                     ELSE files
         /\ status_label' =
                set_status(IF stderr # <<>>
                           THEN TextErr("Pull error: ", stderr)
                           ELSE TextFile("Saved recording: ",
                                         workers[w].out_filename))
    /\ UNCHANGED <<recording, record_thread, ui, dialog, clock, shots, probe>>

\* worker_rm that leaves the temporary file on the device after a failed pull,
\* as take_screenshot does
worker_rm_skips_on_error(w) ==
    /\ workers[w].pc = "rm"
    /\ workers' = [workers EXCEPT
                     ![w] = Finished(workers[w],
                                     IF workers[w].stderr # <<>>
                                     THEN workers[w].cmds
                                     ELSE Append(workers[w].cmds,
                                                 RmCmd(record_tmp)))]
    /\ UNCHANGED <<recording, record_thread, ui, dialog, status_label, clock,
                   files, shots, probe>>

\* line 127, after which the thread ends
worker_rm(w) ==
    /\ workers[w].pc = "rm"
    /\ workers' = [workers EXCEPT
                     ![w] = Finished(workers[w],
                                     Append(workers[w].cmds, RmCmd(record_tmp)))]
    /\ UNCHANGED <<recording, record_thread, ui, dialog, status_label, clock,
                   files, shots, probe>>

record_worker(w) ==
    \/ worker_begin(w)
    \/ worker_popen(w)
    \/ worker_failed(w)
    \/ worker_poll(w)
    \/ worker_terminate(w)
    \/ worker_pull(w)
    \/ worker_rm(w)

----------------------------------------------------------------------------

Next ==
    \/ start_recording
    \/ start_flag
    \/ start_status
    \/ stop_recording
    \/ stop_status
    \/ dismiss
    \/ take_screenshot
    \/ ss_capture
    \/ ss_pull
    \/ ss_rm
    \/ ss_status
    \/ \E w \in WorkerIds : record_worker(w)

Spec == Init /\ [][Next]_vars

\* The recording alone: the screenshot button is never pressed.  The
\* screenshot handler shares with the recording only the UI thread, the dialog
\* and the status text.
RecNext ==
    \/ start_recording
    \/ start_flag
    \/ start_status
    \/ stop_recording
    \/ stop_status
    \/ dismiss
    \/ \E w \in WorkerIds : record_worker(w)

RecSpec == Init /\ [][RecNext]_vars

\* The screenshot alone: the recording buttons are never pressed, so no
\* worker thread exists and the UI thread is the only one running.
ShotNext ==
    \/ take_screenshot
    \/ ss_capture
    \/ ss_pull
    \/ ss_rm
    \/ ss_status
    \/ dismiss

ShotSpec == Init /\ [][ShotNext]_vars

----------------------------------------------------------------------------
(* check_device_connected on its own, over every short output of `devices` *)

Chars == {"d", "v", " ", "\n"}
ErrChars == {"e", " ", "\n"}
Strings(alphabet, n) == UNION {[1..k -> alphabet] : k \in 0..n}

ProbeRuns ==
    {Returned(o, e) : o \in Strings(Chars, MaxLen), e \in Strings(ErrChars, 2)}
        \cup {Raised(NotFound)}

ParseInit ==
    /\ recording = FALSE
    /\ record_thread = 0
    /\ ui = UiIdle
    /\ dialog = NoDialog
    /\ workers = [w \in WorkerIds |-> Unborn]
    /\ status_label = Text("Ready.")
    /\ clock = 0
    /\ files = <<>>
    /\ shots = 0
    /\ \E run \in ProbeRuns :
         probe = [phase |-> "input", run |-> run, present |-> FALSE]

\* lines 50-64
probe_check ==
    /\ probe.phase = "input"
    /\ LET c == check_device_connected(probe.run) IN
         /\ probe' = [probe EXCEPT !.phase = "answered", !.present = c.present]
         /\ dialog' = c.dialog
    /\ UNCHANGED <<recording, record_thread, ui, workers, status_label, clock,
                   files, shots>>

ParseNext == probe_check

ParseSpec == ParseInit /\ [][ParseNext]_vars

----------------------------------------------------------------------------
(* Scheduling: every started thread keeps running, external commands       *)
(* return, and a handler that was entered runs to its end.  Pressing a     *)
(* button and closing a dialog are up to the user.                         *)

ui_continue ==
    \/ start_flag
    \/ start_status
    \/ stop_status
    \/ ss_capture
    \/ ss_pull
    \/ ss_rm
    \/ ss_status

FairSpec ==
    /\ Spec
    /\ \A w \in WorkerIds : WF_vars(record_worker(w))
    /\ WF_vars(ui_continue)

\* the same scheduling when the screenshot button is never pressed
FairRecSpec ==
    /\ RecSpec
    /\ \A w \in WorkerIds : WF_vars(record_worker(w))
    /\ WF_vars(ui_continue)

----------------------------------------------------------------------------
(* Properties *)

Ops(cmds) == [i \in DOMAIN cmds |-> cmds[i].op]

AliveWorkers == {w \in WorkerIds : Alive(w)}

\* C1: at most one _record_worker thread is alive at any time
C1_AtMostOneWorker == Cardinality(AliveWorkers) <= 1

\* C2: once stop_recording was accepted (line 135 has run), the thread that
\* owns the session, record_thread, if it is in its polling loop, eventually
\* leaves the loop, terminates the capture process and attempts the pull
C2_StopReachesOwner ==
    \A w \in WorkerIds :
        (ui.pc = "stop_status" /\ record_thread = w /\ workers[w].pc = "poll")
            ~> (\E i \in DOMAIN workers[w].cmds : workers[w].cmds[i].op = "pull")

\* C3: a thread leaves its polling loop for the teardown only if a
\* stop_recording request was accepted after the start_recording that
\* spawned it
C3_TeardownOnlyAfterStop ==
    \A w \in WorkerIds : workers[w].pc = "terminate" => workers[w].stopReq

\* C4: a start_recording call made while the flag is set changes nothing but
\* the notice: flag, record_thread and threads are as before, no capture
\* process is spawned and the handler issues no external command
C4_RestartIsNoOp ==
    [][(start_recording /\ recording) =>
          /\ recording' = recording
          /\ record_thread' = record_thread
          /\ workers' = workers
          /\ ui'.cmds = <<>>
          /\ ui'.pc = "dialog"
          /\ dialog' = Dialog("showinfo", "Info",
                              "Recording is already in progress.", <<>>)
          /\ status_label' = status_label
          /\ files' = files]_vars

C4_Witness ==
    /\ ui.pc = "dialog"
    /\ dialog.msg = "Recording is already in progress."
    /\ recording
    /\ AliveWorkers # {}

\* C5: a stop_recording call made while the flag is clear changes nothing but
\* the notice: the flag stays clear, the status text and every thread are as
\* before, no command is issued
C5_IdleStopIsNoOp ==
    [][(stop_recording /\ ~recording) =>
          /\ recording' = FALSE
          /\ status_label' = status_label
          /\ workers' = workers
          /\ record_thread' = record_thread
          /\ files' = files
          /\ ui'.cmds = <<>>
          /\ ui'.pc = "dialog"
          /\ dialog' = Dialog("showinfo", "Info",
                              "No recording is currently running.", <<>>)]_vars

C5_Witness ==
    /\ ui.pc = "dialog"
    /\ dialog.msg = "No recording is currently running."
    /\ ~recording

TeardownOps == <<"shell screenrecord", "terminate", "pull", "shell rm">>
Pulls(w) == {i \in DOMAIN workers[w].cmds : workers[w].cmds[i].op = "pull"}

\* the step of thread w in which its pull returns
PullReturns(w) == workers[w].pc = "pull" /\ workers'[w].pc # "pull"

\* C6: a thread that has left its polling loop terminates its own capture
\* process, then pulls /sdcard/tre_record_tmp.mp4 exactly once, in this order;
\* when the pull returns an empty error stream the session has produced
\* exactly one local file record_<timestamp>.mp4 and the status is
\* 'Saved recording: <that name>'
C6_TeardownOrder ==
    /\ [](\A w \in WorkerIds :
            LET ops == Ops(workers[w].cmds) IN
            /\ workers[w].pc = "pull" =>
                   /\ ops = SubSeq(TeardownOps, 1, 2)
                   /\ workers[w].proc = "terminated"
            /\ workers[w].pc = "rm" => ops = SubSeq(TeardownOps, 1, 3)
            /\ (workers[w].pc = "done" /\ workers[w].proc # "none") =>
                   ops = TeardownOps
            /\ Cardinality(Pulls(w)) <= 1
            /\ \A i \in Pulls(w) : workers[w].cmds[i].path = record_tmp)
    /\ [][\A w \in WorkerIds :
            (PullReturns(w) /\ workers'[w].stderr = <<>>) =>
                LET name == workers[w].out_filename IN
                /\ \E t \in 0..clock : name = record_name(strftime(t))
                /\ workers'[w].produced = {name}
                /\ name \in DOMAIN files'
                /\ status_label' = TextFile("Saved recording: ", name)]_vars

C6_Witness ==
    \E w \in WorkerIds :
        /\ workers[w].pc = "rm"
        /\ workers[w].stderr = <<>>
        /\ workers[w].produced = {workers[w].out_filename}
        /\ status_label = TextFile("Saved recording: ", workers[w].out_filename)

C8_PopenFailure ==
    /\ [](\A w \in WorkerIds :
            workers[w].pc = "failed" =>
                workers[w].cmds = <<>> /\ workers[w].proc = "none")
    /\ [][\A w \in WorkerIds :
            /\ (workers[w].pc = "popen" /\ workers'[w].pc = "failed") =>
                   ~recording'
            /\ (workers[w].pc = "failed" /\ workers'[w].pc # "failed") =>
                   /\ workers'[w].pc = "done"
                   /\ workers'[w].cmds = <<>>
                   /\ workers'[w].produced = {}
                   /\ files' = files
                   /\ status_label' =
                          TextErr("Failed to start screenrecord: ", NotFound)]_vars

C8_Witness ==
    \E w \in WorkerIds :
        /\ workers[w].pc = "done"
        /\ workers[w].cmds = <<>>
        /\ ~recording
        /\ status_label.msg = "Failed to start screenrecord: "

\* C9: check_device_connected answers present exactly when the error stream
\* handed back by adb_cmd is empty and some line after the first line of the
\* output is non-blank and contains the device-state token
C9_PresenceCheck ==
    probe.phase = "answered" =>
        LET r == adb_cmd(probe.run)
            lines == splitlines(r.out)
        IN  probe.present <=>
                /\ r.err = <<>>
                /\ \E i \in 2..Len(lines) :
                       /\ strip(lines[i]) # <<>>
                       /\ contains(lines[i], DeviceToken)

C9_Witness ==
    /\ probe.phase = "answered"
    /\ probe.present
    /\ Len(splitlines(adb_cmd(probe.run).out)) = 2

\* the gate of the running handler failed: the tool could not be run, or its
\* error stream was not empty
GateFailed ==
    /\ ui.cmds # <<>>
    /\ ui.cmds[Len(ui.cmds)] = DevicesCmd
    /\ (ui.last.raised \/ strip(ui.last.stderr) # <<>>)

\* C10: when running `devices` raises, or leaves an error stream, the error
\* text comes back as a string, the check answers absent behind an error
\* dialog showing that text, whatever the output lists, and the handler
\* returns having issued no other command
C10_ToolFailure ==
    /\ [](GateFailed =>
            /\ ui.pc = "dialog"
            /\ ui.cmds = <<DevicesCmd>>
            /\ ~check_device_connected(ui.last).present
            /\ dialog = Dialog("showerror", "ADBB Error", "adbb devices failed:",
                               IF ui.last.raised THEN ui.last.exc
                               ELSE strip(ui.last.stderr)))
    /\ [][GateFailed =>
            /\ ui' = ui \/ ui' = UiIdle
            /\ \A w \in WorkerIds :
                   workers[w].pc = "unborn" => workers'[w].pc = "unborn"]_vars

C10_Witness ==
    /\ GateFailed
    /\ ui.last.raised
    /\ dialog.detail = NotFound

\* the presence check of the running handler answered absent: its warning or
\* its error dialog is on screen
GateAbsent ==
    \/ dialog.title = "No Device"
    \/ dialog.msg = "adbb devices failed:"

ScreenshotFiles(fs) == {n \in DOMAIN fs : n.prefix = "screenshot_"}

\* C11: when the presence check answers absent the handler that asked stops
\* at the dialog having issued `devices` only: start_recording leaves the
\* flag clear and starts no thread and no capture process, take_screenshot
\* issues no screencap, pull or rm and writes no local file
C11_GateBlocks ==
    /\ [](GateAbsent =>
            /\ ui.pc = "dialog"
            /\ ui.cmds = <<DevicesCmd>>
            /\ ui.out_filename = NoName)
    /\ [][(start_recording /\ GateAbsent') =>
            /\ ~recording'
            /\ workers' = workers
            /\ record_thread' = record_thread
            /\ files' = files]_vars
    /\ [][(take_screenshot /\ GateAbsent') =>
            /\ files' = files
            /\ status_label' = status_label
            /\ workers' = workers
            /\ recording' = recording]_vars
    /\ [][GateAbsent =>
            /\ ui' = ui \/ ui' = UiIdle
            /\ recording' => recording
            /\ \A w \in WorkerIds :
                   workers[w].pc = "unborn" => workers'[w].pc = "unborn"
            /\ ScreenshotFiles(files') = ScreenshotFiles(files)
            /\ \A n \in ScreenshotFiles(files) : files'[n] = files[n]]_vars

C11_Witness ==
    /\ GateAbsent
    /\ dialog.kind = "showwarning"
    /\ shots = 0
    /\ ~recording
    /\ Spawned = {}

\* C12: with the device present and every command succeeding, take_screenshot
\* issues screencap to /sdcard/tre_screenshot_tmp.png, then one pull of that
\* path, then one rm of that path, in this order; the pull writes exactly the
\* local file screenshot_<timestamp>.png, once, and the status names it
C12_ScreenshotOrder ==
    /\ [](/\ ui.pc = "ss_capture" =>
              /\ ui.cmds = <<DevicesCmd>>
              /\ \E t \in 0..clock :
                     ui.out_filename = screenshot_name(strftime(t))
          /\ ui.pc = "ss_pull" => ui.cmds = <<DevicesCmd, ScreencapCmd>>
          /\ ui.pc = "ss_rm" =>
              /\ ui.cmds = <<DevicesCmd, ScreencapCmd, PullCmd(screenshot_tmp)>>
              /\ ui.out_filename \in DOMAIN files
          /\ ui.pc = "ss_status" =>
              /\ ui.cmds = <<DevicesCmd, ScreencapCmd, PullCmd(screenshot_tmp),
                             RmCmd(screenshot_tmp)>>
              /\ ui.out_filename \in DOMAIN files)
    /\ [][(ui.pc = "ss_pull" /\ ui'.pc = "ss_rm") =>
            LET name == ui.out_filename IN
            /\ DOMAIN files' = DOMAIN files \cup {name}
            /\ files'[name] = IF name \in DOMAIN files THEN files[name] + 1 ELSE 1
            /\ \A n \in DOMAIN files \ {name} : files'[n] = files[n]]_vars
    /\ [][ui.pc \in {"ss_capture", "ss_rm", "ss_status"} => files' = files]_vars
    /\ [][ui.pc = "ss_status" =>
            /\ ui' = UiIdle
            /\ status_label' = TextFile("Saved screenshot: ", ui.out_filename)]_vars

C12_Witness ==
    /\ ui.pc = "ss_status"
    /\ ui.out_filename = screenshot_name(strftime(clock))
    /\ files[ui.out_filename] = 1

CaptureFailed == dialog.msg = "screencap failed:"
PullFailed == dialog.msg = "pull failed:"

\* C13: in take_screenshot an error stream of the screencap stops the handler
\* before any pull, and an error stream of the screencap or of the pull stops
\* it at an error dialog showing that text, with no rm issued, no file written
\* after it and no 'Saved screenshot' status
C13_ScreenshotAbort ==
    /\ [](/\ CaptureFailed =>
              /\ ui.cmds = <<DevicesCmd, ScreencapCmd>>
              /\ status_label = Text("Capturing screenshot on device...")
          /\ PullFailed =>
              /\ ui.cmds = <<DevicesCmd, ScreencapCmd, PullCmd(screenshot_tmp)>>
              /\ status_label = Text("Pulling screenshot from device...")
          /\ (CaptureFailed \/ PullFailed) =>
              /\ ui.pc = "dialog"
              /\ dialog.kind = "showerror"
              /\ dialog.detail = adb_cmd(ui.last).err
              /\ dialog.detail # <<>>)
    /\ [][(CaptureFailed \/ PullFailed) =>
            /\ ui' = ui \/ ui' = UiIdle
            /\ status_label' = status_label
            /\ files' = files]_vars
    /\ [][(ui.pc = "ss_pull" /\ PullFailed') => files' = files]_vars

C13_Witness ==
    /\ PullFailed
    /\ ui.pc = "dialog"
    /\ Len(ui.cmds) = 3
    /\ status_label.msg # "Saved screenshot: "

\* no session in progress: the flag is clear and every thread has returned
Idle == ~recording /\ AliveWorkers = {}

\* C14: with threads scheduled and external commands returning, after the
\* presence check refused a start, after the capture process failed to start,
\* and after a pull failed, the program eventually is idle again: flag
\* clear and no thread alive, so that a later start_recording is accepted
C14_FailuresReturnToIdle ==
    /\ (ui.pc = "dialog" /\ GateAbsent /\ ~recording) ~> Idle
    /\ \A w \in WorkerIds :
           /\ (workers[w].pc = "failed") ~> Idle
           /\ (workers[w].pc = "rm" /\ workers[w].stderr # <<>>) ~> Idle

Rms(w) == {i \in DOMAIN workers[w].cmds : workers[w].cmds[i].op = "shell rm"}

\* C15: in the teardown the thread issues the rm of /sdcard/tre_record_tmp.mp4
\* exactly once, as the command right after its pull has returned, and it does
\* so after a failed pull as after a successful one
C15_RmAfterPull ==
    /\ [](\A w \in WorkerIds :
            LET cmds == workers[w].cmds IN
            /\ workers[w].pc # "done" => Rms(w) = {}
            /\ Cardinality(Rms(w)) <= 1
            /\ \A i \in Rms(w) :
                   /\ i = Len(cmds)
                   /\ cmds[i] = RmCmd(record_tmp)
                   /\ i > 1 /\ cmds[i - 1] = PullCmd(record_tmp))
    /\ [][\A w \in WorkerIds :
            PullReturns(w) => workers'[w].pc = "rm"]_vars
    /\ [][\A w \in WorkerIds :
            (workers[w].pc = "rm" /\ workers'[w].pc # "rm") =>
                /\ workers'[w].pc = "done"
                /\ workers'[w].cmds = Append(workers[w].cmds, RmCmd(record_tmp))]_vars

C15_Witness ==
    /\ Cardinality(Spawned) = 1
    /\ \E w \in WorkerIds :
           /\ workers[w].pc = "done"
           /\ Cardinality(Rms(w)) = 1
    /\ files = <<>>

\* the only session so far ended because its capture process did not start,
\* and start_recording has returned
OnlySessionFailed ==
    /\ Spawned = {1}
    /\ workers[1].pc = "done"
    /\ workers[1].proc = "none"
    /\ ui.pc \in {"idle", "dialog"}

\* C16: after a start_recording whose capture process fails to start, and
\* nothing else, the status shown in the end is the 'Failed to start
\* screenrecord' text, however the thread's set_status calls interleave
\* with the set_status('Recording: ON') of start_recording
C16_StatusShowsFailure ==
    OnlySessionFailed =>
        status_label = TextErr("Failed to start screenrecord: ", NotFound)

\* C17: every local output file is written by one session only and once: no
\* two screenshots and no two recordings pull into the same file name, also
\* when both read the clock within the same second
C17_FilesWrittenOnce == \A n \in DOMAIN files : files[n] = 1

\* the step in which thread w issues its pull or its rm
IssuesPullOrRm(w) ==
    /\ workers[w].pc \in {"pull", "rm"}
    /\ Len(workers'[w].cmds) = Len(workers[w].cmds) + 1
    /\ workers'[w].cmds[Len(workers'[w].cmds)] \in
           {PullCmd(record_tmp), RmCmd(record_tmp)}

\* C18: no thread issues the pull or the rm of /sdcard/tre_record_tmp.mp4
\* while the capture process spawned by another thread is running, writing
\* to that path
C18_NoTeardownDuringCapture ==
    [][\A w \in WorkerIds :
          IssuesPullOrRm(w) =>
              \A v \in WorkerIds \ {w} : workers[v].proc # "running"]_vars

\* C19: whenever the flag is set some thread is alive that has not left its
\* polling loop, so an accepted stop_recording always has a thread that can
\* see it; the flag is set only by start_recording, and cleared only by
\* stop_recording and by a thread whose capture process failed to start
C19_FlagHasWorker ==
    /\ [](recording => \E w \in WorkerIds : BeforeTeardown(w))
    /\ [][(recording /\ ~recording' /\ ui'.pc = "stop_status" /\ ui.pc = "idle") =>
            \E w \in WorkerIds : BeforeTeardown(w) /\ workers'[w].stopReq]_vars
    /\ [][(~recording /\ recording') =>
            /\ ui.pc = "start_flag"
            /\ ui'.pc = "start_status"]_vars
    /\ [][(recording /\ ~recording') =>
            \/ ui.pc = "idle" /\ ui'.pc = "stop_status"
            \/ \E w \in WorkerIds :
                   workers[w].pc = "popen" /\ workers'[w].pc = "failed"]_vars

C19_Witness ==
    /\ recording
    /\ \E w, v \in WorkerIds :
           /\ workers[w].pc = "poll"
           /\ workers[v].pc \in {"terminate", "pull", "rm"}

====
